---- MODULE Spec2Model ----
(***************************************************************************)
(* The OpenAI stream collector, collect_stream_to_json                     *)
(* (src-tauri/src/proxy/mappers/openai/collector.rs): a sequential fold    *)
(* over a stream of byte chunks carrying server-sent events, producing one *)
(* chat-completion record when the stream ends, or an error string when    *)
(* the stream yields a transport error.                                    *)
(*                                                                         *)
(* Representation.  A Rust String is a sequence of one-character strings,  *)
(* so that join("") is sequence concatenation.  A chunk is a sequence of   *)
(* lexical tokens: the literal pieces the code looks for ("data:", a       *)
(* space, a newline, "[DONE]"), other text, and whole or half JSON         *)
(* documents.  A JSON document is held as the tree serde_json would parse  *)
(* it to; every node carries its JSON type in ty.                          *)
(***************************************************************************)
EXTENDS Integers, Sequences, FiniteSets, TLC

VARIABLES
    profile,          \* which family of upstream lines this run draws from
    pulled,           \* the items stream.next() has yielded so far
    lines,            \* text.lines(): the lines of the current chunk not yet visited
    pc,               \* "next": at stream.next().await, "lines": in the for loop, "done": returned
    response,         \* let mut response
    role,             \* let mut role: Option<String>
    content_parts,    \* let mut content_parts: Vec<String>
    reasoning_parts,  \* let mut reasoning_parts: Vec<String>
    finish_reason,    \* let mut finish_reason: Option<String>
    tool_calls,       \* let mut tool_calls: Vec<Value>
    result            \* what the call returned, once pc = "done"

vars == <<profile, pulled, lines, pc, response, role, content_parts,
          reasoning_parts, finish_reason, tool_calls, result>>

(***************************************************************************)
(* Bounds                                                                  *)
(***************************************************************************)
\* The number of items a run pulls from the stream before the stream must end.
MaxItems == 2

(***************************************************************************)
(* Option<T>                                                               *)
(***************************************************************************)
None == [some |-> FALSE, v |-> <<>>]
Some(x) == [some |-> TRUE, v |-> x]
NoneU64 == [some |-> FALSE, v |-> 0]

(***************************************************************************)
(* serde_json::Value, scalar nodes                                         *)
(***************************************************************************)
JAbsent == [ty |-> "absent", s |-> <<>>, n |-> 0]       \* the key is not in the object
JNull == [ty |-> "null", s |-> <<>>, n |-> 0]
JStr(s) == [ty |-> "string", s |-> s, n |-> 0]
JNum(n) == [ty |-> "number", s |-> <<>>, n |-> n]       \* an integer literal
JFrac == [ty |-> "fraction", s |-> <<>>, n |-> 0]       \* a literal with a fractional part, 1.5
JArr == [ty |-> "array", s |-> <<>>, n |-> 0]           \* an array where a scalar is expected
JTrue == [ty |-> "bool", s |-> <<>>, n |-> 0]

\* Value::as_str
as_str(v) == IF v.ty = "string" THEN Some(v.s) ELSE None

\* Value::as_u64: a number that is a non-negative integer
as_u64(v) == IF v.ty = "number" /\ v.n >= 0 THEN Some(v.n) ELSE NoneU64

(***************************************************************************)
(* serde_json::Value, the nodes of a streaming chunk                       *)
(***************************************************************************)
\* the value under "usage"
UAbsent == [ty |-> "absent", prompt_tokens |-> JAbsent, completion_tokens |-> JAbsent,
            total_tokens |-> JAbsent]
UNull == [UAbsent EXCEPT !.ty = "null"]
UOther == [UAbsent EXCEPT !.ty = "string"]
UObj(p, c, t) == [ty |-> "object", prompt_tokens |-> p, completion_tokens |-> c,
                  total_tokens |-> t]

\* the value under "delta" of a choice
DAbsent == [ty |-> "absent", role |-> JAbsent, content |-> JAbsent,
            reasoning_content |-> JAbsent, tool_calls |-> JAbsent, finish_reason |-> JAbsent]
DNull == [DAbsent EXCEPT !.ty = "null"]
DObj(r, c, rc) == [ty |-> "object", role |-> r, content |-> c, reasoning_content |-> rc,
                   tool_calls |-> JAbsent, finish_reason |-> JAbsent]

\* one entry of "choices"
ChObj(d, fr) == [ty |-> "object", delta |-> d, finish_reason |-> fr]
ChOther == [ty |-> "string", delta |-> DAbsent, finish_reason |-> JAbsent]

\* the value under "choices"
CAbsent == [ty |-> "absent", arr |-> <<>>]
CNull == [ty |-> "null", arr |-> <<>>]
CArr(a) == [ty |-> "array", arr |-> a]

\* the document itself
JObject(id, model, created, usage, choices) ==
    [ty |-> "object", id |-> id, model |-> model, created |-> created, usage |-> usage,
     choices |-> choices]
EmptyObject == JObject(JAbsent, JAbsent, JAbsent, UAbsent, CAbsent)
NotAnObject == [EmptyObject EXCEPT !.ty = "number"]     \* valid JSON that is no object, 42

(***************************************************************************)
(* Text: chunks, lines, and the str methods the code calls                 *)
(***************************************************************************)
Tok(k) == [k |-> k, e |-> EmptyObject]
TData == Tok("data:")
TSp == Tok("sp")
TNl == Tok("nl")
TDone == Tok("[DONE]")
TEvent == Tok("event:")
TColon == Tok(":")
TJunk == Tok("junk")                   \* text that is no JSON, {oops
TBadByte == Tok("0xFF")                \* a byte that is not valid UTF-8
TReplacement == Tok("U+FFFD")
TJson(e) == [k |-> "json", e |-> e]    \* the whole text of document e
TJHead(e) == [k |-> "jhead", e |-> e]  \* a proper prefix of the text of e
TJTail(e) == [k |-> "jtail", e |-> e]  \* the rest of it

\* String::from_utf8_lossy
from_utf8_lossy(chunk) ==
    [i \in DOMAIN chunk |-> IF chunk[i].k = "0xFF" THEN TReplacement ELSE chunk[i]]

\* position of the first newline of t, 0 if there is none
RECURSIVE FirstNl(_, _)
FirstNl(t, i) ==
    IF i > Len(t) THEN 0 ELSE IF t[i].k = "nl" THEN i ELSE FirstNl(t, i + 1)

\* str::lines: the pieces between newlines; a final empty piece is no line
RECURSIVE str_lines(_)
str_lines(t) ==
    IF t = <<>> THEN <<>>
    ELSE LET i == FirstNl(t, 1)
         IN  IF i = 0 THEN <<t>>
             ELSE <<SubSeq(t, 1, i - 1)>> \o str_lines(SubSeq(t, i + 1, Len(t)))

RECURSIVE trim_start(_)
trim_start(t) == IF t # <<>> /\ Head(t).k = "sp" THEN trim_start(Tail(t)) ELSE t

RECURSIVE trim_end(_)
trim_end(t) ==
    IF t # <<>> /\ t[Len(t)].k = "sp" THEN trim_end(SubSeq(t, 1, Len(t) - 1)) ELSE t

\* str::trim
trim(t) == trim_end(trim_start(t))

\* line.starts_with("data: ")
starts_with_data(t) == Len(t) >= 2 /\ t[1].k = "data:" /\ t[2].k = "sp"

\* line.trim_start_matches("data: "): every leading repetition is removed
RECURSIVE trim_start_matches_data(_)
trim_start_matches_data(t) ==
    IF starts_with_data(t) THEN trim_start_matches_data(SubSeq(t, 3, Len(t))) ELSE t

\* serde_json::from_str::<Value>
NoJson == [ok |-> FALSE, json |-> EmptyObject]
from_str(d) ==
    IF Len(d) = 1 /\ d[1].k = "json" THEN [ok |-> TRUE, json |-> d[1].e]
    ELSE IF Len(d) = 2 /\ d[1].k = "jhead" /\ d[2].k = "jtail" /\ d[1].e = d[2].e
         THEN [ok |-> TRUE, json |-> d[1].e]
         ELSE NoJson

(***************************************************************************)
(* The merge of one parsed document into the aggregate (lines 46-91)       *)
(***************************************************************************)
\* Value::get(key): only an object has keys
get(v, key) == IF v.ty = "object" THEN v[key] ELSE JAbsent

\* lines 47-49
update_id(id, json) ==
    LET o == as_str(get(json, "id")) IN IF o.some THEN o.v ELSE id

\* a variant of update_model that reads the id key
update_model_from_id(model, json) ==
    LET o == as_str(get(json, "id")) IN IF o.some THEN o.v ELSE model

\* lines 50-52
update_model(model, json) ==
    LET o == as_str(get(json, "model")) IN IF o.some THEN o.v ELSE model

\* a variant of update_created that takes every integer, negative ones too
update_created_any_number(created, json) ==
    IF get(json, "created").ty = "number" THEN get(json, "created").n ELSE created

\* lines 53-55
update_created(created, json) ==
    LET o == as_u64(get(json, "created")) IN IF o.some THEN o.v ELSE created

\* OpenAIUsage and Option<OpenAIUsage>
OpenAIUsage(p, c, t) == [prompt_tokens |-> p, completion_tokens |-> c, total_tokens |-> t]
NoUsage == [some |-> FALSE, v |-> OpenAIUsage(0, 0, 0)]

\* serde_json::from_value::<OpenAIUsage>: the derived Deserialize of a struct
\* declared in the models module; the three token counts are required integers.
from_value_usage(u) ==
    IF /\ u.ty = "object"
       /\ as_u64(u.prompt_tokens).some
       /\ as_u64(u.completion_tokens).some
       /\ as_u64(u.total_tokens).some
    THEN [some |-> TRUE,
          v |-> OpenAIUsage(u.prompt_tokens.n, u.completion_tokens.n, u.total_tokens.n)]
    ELSE NoUsage

\* a variant of update_usage in which a usage of the wrong shape clears the stored one
update_usage_clears(usage, json) ==
    IF json.ty = "object" /\ json.usage.ty # "absent"
    THEN from_value_usage(json.usage)
    ELSE usage

\* lines 58-62
update_usage(usage, json) ==
    IF json.ty = "object" /\ json.usage.ty # "absent"
    THEN LET u == from_value_usage(json.usage) IN IF u.some THEN u ELSE usage
    ELSE usage

\* a variant of first_choice that reads the last entry
first_choice_last(json) ==
    IF json.ty = "object" /\ json.choices.ty = "array" /\ json.choices.arr # <<>>
    THEN [some |-> TRUE, v |-> json.choices.arr[Len(json.choices.arr)]]
    ELSE [some |-> FALSE, v |-> ChOther]

\* lines 65-66: json.get("choices").and_then(as_array), then choices.first()
first_choice(json) ==
    IF json.ty = "object" /\ json.choices.ty = "array" /\ json.choices.arr # <<>>
    THEN [some |-> TRUE, v |-> json.choices.arr[1]]
    ELSE [some |-> FALSE, v |-> ChOther]

\* line 67: choice.get("delta")
first_delta(json) ==
    LET ch == first_choice(json)
    IN  IF ch.some /\ ch.v.ty = "object" /\ ch.v.delta.ty # "absent"
        THEN [some |-> TRUE, v |-> ch.v.delta]
        ELSE [some |-> FALSE, v |-> DAbsent]

\* a variant of update_role that stores what the event has, a string or nothing
update_role_resets(r, json) ==
    LET d == first_delta(json)
    IN  IF d.some THEN as_str(get(d.v, "role")) ELSE None

\* lines 69-71
update_role(r, json) ==
    LET d == first_delta(json)
        o == IF d.some THEN as_str(get(d.v, "role")) ELSE None
    IN  IF o.some THEN Some(o.v) ELSE r

\* a variant of update_content_parts that passes over a delta with tool_calls
update_content_parts_not_with_tools(parts, json) ==
    LET d == first_delta(json)
        o == IF d.some /\ get(d.v, "tool_calls").ty = "absent"
             THEN as_str(get(d.v, "content")) ELSE None
    IN  IF o.some THEN Append(parts, o.v) ELSE parts

\* a variant of update_content_parts that puts the fragment in front
update_content_parts_front(parts, json) ==
    LET d == first_delta(json)
        o == IF d.some THEN as_str(get(d.v, "content")) ELSE None
    IN  IF o.some THEN <<o.v>> \o parts ELSE parts

\* lines 74-76
update_content_parts(parts, json) ==
    LET d == first_delta(json)
        o == IF d.some THEN as_str(get(d.v, "content")) ELSE None
    IN  IF o.some THEN Append(parts, o.v) ELSE parts

\* a variant of update_reasoning_parts that reads the content key
update_reasoning_parts_from_content(parts, json) ==
    LET d == first_delta(json)
        o == IF d.some THEN as_str(get(d.v, "content")) ELSE None
    IN  IF o.some THEN Append(parts, o.v) ELSE parts

\* lines 79-81
update_reasoning_parts(parts, json) ==
    LET d == first_delta(json)
        o == IF d.some THEN as_str(get(d.v, "reasoning_content")) ELSE None
    IN  IF o.some THEN Append(parts, o.v) ELSE parts

\* a variant of update_finish_reason that reads it only next to a delta object
update_finish_reason_needs_delta(fr, json) ==
    LET ch == first_choice(json)
        d == first_delta(json)
        o == IF ch.some /\ d.some /\ d.v.ty = "object"
             THEN as_str(get(ch.v, "finish_reason")) ELSE None
    IN  IF o.some THEN Some(o.v) ELSE fr

\* lines 87-89
update_finish_reason(fr, json) ==
    LET ch == first_choice(json)
        o == IF ch.some THEN as_str(get(ch.v, "finish_reason")) ELSE None
    IN  IF o.some THEN Some(o.v) ELSE fr

\* the line is the sentinel: "data: [DONE]" once trimmed
is_done(raw) ==
    /\ starts_with_data(trim(raw))
    /\ trim(trim_start_matches_data(trim(raw))) = <<TDone>>

\* a variant of after_line in which the sentinel leaves the for loop
after_line_break(ls) == IF is_done(Head(ls)) THEN <<>> ELSE Tail(ls)

\* lines 37, 41-43: the lines still to visit once the first of ls has been;
\* the sentinel continues with the next line like any other
after_line(ls) == Tail(ls)

\* a variant of line_json that takes "data:" for the prefix, with or without
\* the space
line_json_loose_prefix(raw) ==
    LET line == trim(raw)
    IN  IF line = <<>> \/ line[1].k # "data:" THEN NoJson
        ELSE LET data_str == trim(Tail(line))
             IN  IF data_str = <<TDone>> THEN NoJson ELSE from_str(data_str)

\* lines 38-45: the document a line carries, if the line gets as far as the merge
line_json(raw) ==
    LET line == trim(raw)
    IN  IF ~starts_with_data(line) THEN NoJson
        ELSE LET data_str == trim(trim_start_matches_data(line))
             IN  IF data_str = <<TDone>> THEN NoJson ELSE from_str(data_str)

(***************************************************************************)
(* The final assembly (lines 97-120)                                       *)
(***************************************************************************)
\* [String]::join("")
RECURSIVE join(_)
join(parts) == IF parts = <<>> THEN <<>> ELSE Head(parts) \o join(Tail(parts))

StrAssistant == <<"a", "s", "s", "i", "s", "t", "a", "n", "t">>
StrStop == <<"s", "t", "o", "p">>
StrUnknown == <<"u", "n", "k", "n", "o", "w", "n">>
StrChatcmplUnknown == <<"c", "h", "a", "t", "c", "m", "p", "l", "-">> \o StrUnknown
StrChatCompletion ==
    <<"c", "h", "a", "t", ".", "c", "o", "m", "p", "l", "e", "t", "i", "o", "n">>

\* a variant of full_reasoning that joins an empty list to the empty string
full_reasoning_joined(rp) == Some(join(rp))

\* line 98
full_content(cp) == join(cp)

\* lines 99-103
full_reasoning(rp) == IF rp = <<>> THEN None ELSE Some(join(rp))

\* a variant of message in which an empty content is absent, like the reasoning
message_content_absent(r, cp, rp) ==
    [role |-> IF r.some THEN r.v ELSE StrAssistant,
     content |-> IF cp = <<>> THEN None ELSE Some(full_content(cp)),
     reasoning_content |-> full_reasoning(rp),
     tool_calls |-> None,
     tool_call_id |-> None,
     name |-> None]

\* lines 105-112
message(r, cp, rp) ==
    [role |-> IF r.some THEN r.v ELSE StrAssistant,
     content |-> Some(full_content(cp)),
     reasoning_content |-> full_reasoning(rp),
     tool_calls |-> None,
     tool_call_id |-> None,
     name |-> None]

\* lines 114-118
Choice(r, cp, rp, fr) ==
    [index |-> 0,
     message |-> message(r, cp, rp),
     finish_reason |-> IF fr.some THEN fr ELSE Some(StrStop)]

\* format!("Stream error: {}", e)
stream_error(e) == <<"Stream error: ", e>>

(***************************************************************************)
(* The upstream: what the stream may yield                                 *)
(***************************************************************************)
StrLength == <<"l", "e", "n", "g", "t", "h">>
StrUser == <<"u", "s", "e", "r">>

\* a document with one choice and nothing else
OneChoice(d, fr) == JObject(JAbsent, JAbsent, JAbsent, UAbsent, CArr(<<ChObj(d, fr)>>))
\* a document with a first choice and a second one
TwoChoices(c1, c2) == JObject(JAbsent, JAbsent, JAbsent, UAbsent, CArr(<<c1, c2>>))
\* a document with top-level fields only
Meta(id, model, created) == JObject(id, model, created, UAbsent, CAbsent)
\* a document with a usage
WithUsage(u) == JObject(JAbsent, JAbsent, JAbsent, u, CAbsent)

\* the line "data: <document>"
DataLine(e) == <<TData, TSp, TJson(e)>>
DoneLine == <<TData, TSp, TDone>>
JunkLine == <<TData, TSp, TJunk>>

\* every second choice of the "choices" family carries strings no first choice carries
Poison == ChObj(DObj(JStr(<<"x">>), JStr(<<"x">>), JStr(<<"x">>)), JStr(<<"x">>))

\* The lines of each family.  Every family has lines that are merged and
\* lines that are not.
\* an event and the two pieces of its line when a chunk boundary falls inside
\* the JSON text
SplitEvent == OneChoice(DObj(JStr(StrUser), JStr(<<"a">>), JStr(<<"r">>)), JStr(StrLength))
SplitHead == <<TData, TSp, TJHead(SplitEvent)>>
SplitTail == <<TJTail(SplitEvent)>>

\* an event that sets every field, and one with a value of a wrong type under
\* every key
FullEvent ==
    JObject(JStr(<<"a", "b", "c">>), JStr(<<"m", "1">>), JNum(7),
            UObj(JNum(5), JNum(2), JNum(7)),
            CArr(<<ChObj(DObj(JStr(StrUser), JStr(<<"a">>), JStr(<<"r">>)), JStr(StrLength))>>))
WrongTypes ==
    JObject(JNum(1), JTrue, JStr(<<"9">>), UOther,
            CArr(<<ChObj(DObj(JNum(1), JNull, JArr), JNum(1))>>))

StrToolCalls == <<"t", "o", "o", "l", "_", "c", "a", "l", "l", "s">>

\* a delta like d that also carries tool_calls fragments
WithToolCalls(d) == [d EXCEPT !.tool_calls = JArr]

LineTexts(p) ==
    CASE p = "content" ->
           { DataLine(OneChoice(DObj(JAbsent, JStr(<<"a">>), JAbsent), JAbsent)),
             DataLine(OneChoice(DObj(JAbsent, JStr(<<"b">>), JStr(<<"r">>)), JAbsent)),
             DataLine(OneChoice(DObj(JAbsent, JAbsent, JStr(<<"s">>)), JAbsent)),
             DataLine(OneChoice(DObj(JAbsent, JNull, JNum(1)), JAbsent)),
             DataLine(OneChoice(DObj(JAbsent, JStr(<<>>), JStr(<<>>)), JAbsent)),
             DataLine(OneChoice(DNull, JAbsent)),
             DoneLine,
             JunkLine }
      [] p = "finish" ->
           { DataLine(OneChoice(DObj(JAbsent, JStr(<<"a">>), JAbsent), JStr(StrLength))),
             DataLine(OneChoice(DAbsent, JStr(StrStop))),
             DataLine(OneChoice(DAbsent, JStr(<<>>))),
             DataLine(OneChoice(DObj(JAbsent, JStr(<<"b">>), JAbsent), JNull)),
             DataLine(OneChoice([DObj(JAbsent, JAbsent, JAbsent)
                                    EXCEPT !.finish_reason = JStr(StrLength)], JAbsent)),
             DataLine(JObject(JAbsent, JAbsent, JAbsent, UAbsent, CArr(<<>>))),
             DoneLine,
             JunkLine }
      [] p = "meta" ->
           { DataLine(Meta(JStr(<<"a", "b", "c">>), JStr(<<"m", "1">>), JNum(7))),
             DataLine(Meta(JStr(<<"d">>), JAbsent, JAbsent)),
             DataLine(Meta(JAbsent, JStr(<<"m", "2">>), JNum(0 - 1))),
             DataLine(Meta(JAbsent, JAbsent, JNum(8))),
             DataLine(Meta(JStr(<<>>), JStr(<<>>), JFrac)),
             DataLine(Meta(JNum(5), JNull, JStr(<<"9">>))),
             DataLine(EmptyObject),
             DataLine(NotAnObject),
             DoneLine,
             JunkLine }
      [] p = "usage" ->
           { DataLine(WithUsage(UObj(JNum(5), JNum(2), JNum(7)))),
             DataLine(WithUsage(UObj(JNum(1), JNum(1), JNum(2)))),
             DataLine(WithUsage(UNull)),
             DataLine(WithUsage(UOther)),
             DataLine(WithUsage(UObj(JNum(9), JAbsent, JAbsent))),
             DataLine(WithUsage(UObj(JNum(9), JStr(<<"3">>), JNum(9)))),
             DataLine(EmptyObject),
             DoneLine,
             JunkLine }
      [] p = "choices" ->
           { DataLine(TwoChoices(ChObj(DObj(JStr(StrUser), JStr(<<"a">>), JStr(<<"r">>)),
                                       JStr(StrLength)), Poison)),
             DataLine(TwoChoices(ChObj(DObj(JAbsent, JStr(<<"b">>), JAbsent), JAbsent), Poison)),
             DataLine(TwoChoices(ChObj(DAbsent, JAbsent), Poison)),
             DataLine(TwoChoices(ChOther, Poison)),
             DataLine(TwoChoices(ChObj(DNull, JNull), Poison)),
             DataLine(OneChoice(DObj(JAbsent, JStr(<<"c">>), JStr(<<"s">>)), JStr(StrStop))),
             DataLine(JObject(JAbsent, JAbsent, JAbsent, UAbsent, CNull)),
             DoneLine,
             JunkLine }
      [] p = "types" ->
           { DataLine(FullEvent),
             DataLine(WrongTypes),
             DataLine(EmptyObject),
             DataLine(NotAnObject),
             DataLine(JObject(JNull, JNull, JNull, UNull, CNull)),
             DataLine(JObject(JAbsent, JAbsent, JAbsent, UAbsent, CArr(<<ChOther>>))),
             DataLine(OneChoice(DNull, JNull)) }
      [] p = "role" ->
           { DataLine(OneChoice(DObj(JStr(StrUser), JStr(<<"a">>), JAbsent), JAbsent)),
             DataLine(OneChoice(DObj(JStr(<<>>), JStr(<<"b">>), JAbsent), JAbsent)),
             DataLine(OneChoice(DObj(JStr(StrAssistant), JAbsent, JAbsent), JAbsent)),
             DataLine(OneChoice(DObj(JNull, JStr(<<"c">>), JAbsent), JAbsent)),
             DataLine(OneChoice(DAbsent, JStr(StrStop))) }
      [] p = "prefix" ->
           { <<TSp, TData, TSp, TJson(FullEvent), TSp>>,
             <<TJson(FullEvent)>>,
             <<TSp, TSp>>,
             <<TData, TSp>>,
             <<TJunk, TData, TSp, TJson(FullEvent)>> }
      [] p = "tools" ->
           { DataLine(OneChoice(WithToolCalls(DObj(JStr(StrUser), JStr(<<"a">>), JAbsent)),
                                JAbsent)),
             DataLine(OneChoice(WithToolCalls(DObj(JAbsent, JAbsent, JStr(<<"r">>))),
                                JStr(StrToolCalls))),
             DataLine(OneChoice(WithToolCalls(DObj(JAbsent, JAbsent, JAbsent)), JAbsent)),
             DataLine(OneChoice(DObj(JStr(StrUser), JStr(<<"a">>), JAbsent), JAbsent)),
             DataLine(OneChoice(DObj(JAbsent, JStr(<<"b">>), JAbsent), JStr(StrStop))) }
      [] p = "split" ->
           { SplitHead,
             SplitTail,
             SplitHead \o SplitTail,
             DataLine(SplitEvent),
             <<TData, TSp>>,
             <<TJson(SplitEvent)>>,
             DataLine(OneChoice(DObj(JAbsent, JStr(<<"b">>), JAbsent), JAbsent)) }
      [] p = "lines" ->
           { DataLine(OneChoice(DObj(JAbsent, JStr(<<"a">>), JAbsent), JAbsent)),
             DataLine(OneChoice(DObj(JStr(StrUser), JStr(<<"b">>), JStr(<<"r">>)),
                                JStr(StrLength))),
             DataLine(JObject(JStr(<<"a", "b", "c">>), JStr(<<"m", "1">>), JNum(7),
                              UObj(JNum(5), JNum(2), JNum(7)), CAbsent)),
             DoneLine,
             <<TSp, TData, TSp, TSp, TDone, TSp>>,
             JunkLine,
             <<TData, TSp, TJson(EmptyObject), TJunk>>,
             <<TData, TSp, TBadByte>>,
             <<>> }

\* the lines of a family that also come two to a chunk
PairTexts(p) ==
    CASE p = "content" ->
           { DataLine(OneChoice(DObj(JAbsent, JStr(<<"a">>), JAbsent), JAbsent)),
             DataLine(OneChoice(DObj(JAbsent, JStr(<<"b">>), JStr(<<"r">>)), JAbsent)),
             DataLine(OneChoice(DObj(JAbsent, JAbsent, JStr(<<"s">>)), JAbsent)) }
      [] p = "finish" ->
           { DataLine(OneChoice(DObj(JAbsent, JStr(<<"a">>), JAbsent), JStr(StrLength))),
             DataLine(OneChoice(DAbsent, JStr(StrStop))),
             DataLine(OneChoice(DAbsent, JStr(<<>>))) }
      [] p = "meta" ->
           { DataLine(Meta(JStr(<<"a", "b", "c">>), JStr(<<"m", "1">>), JNum(7))),
             DataLine(Meta(JStr(<<"d">>), JAbsent, JAbsent)),
             DataLine(Meta(JStr(<<>>), JStr(<<>>), JFrac)) }
      [] p = "usage" ->
           { DataLine(WithUsage(UObj(JNum(5), JNum(2), JNum(7)))),
             DataLine(WithUsage(UObj(JNum(1), JNum(1), JNum(2)))),
             DataLine(WithUsage(UNull)) }
      [] p = "choices" ->
           { DataLine(TwoChoices(ChObj(DObj(JStr(StrUser), JStr(<<"a">>), JStr(<<"r">>)),
                                       JStr(StrLength)), Poison)),
             DataLine(TwoChoices(ChObj(DAbsent, JAbsent), Poison)),
             DataLine(OneChoice(DObj(JAbsent, JStr(<<"c">>), JStr(<<"s">>)), JStr(StrStop))) }
      [] p = "types" ->
           { DataLine(FullEvent),
             DataLine(WrongTypes),
             DataLine(EmptyObject) }
      [] p = "role" ->
           { DataLine(OneChoice(DObj(JStr(StrUser), JStr(<<"a">>), JAbsent), JAbsent)),
             DataLine(OneChoice(DObj(JStr(<<>>), JStr(<<"b">>), JAbsent), JAbsent)),
             DataLine(OneChoice(DObj(JStr(StrAssistant), JAbsent, JAbsent), JAbsent)) }
      [] p = "prefix" ->
           { <<>>,
             <<TData, TJson(FullEvent)>>,
             <<TEvent, TSp, TJson(FullEvent)>>,
             <<TColon, TSp, TJson(FullEvent)>> }
      [] p = "tools" ->
           { DataLine(OneChoice(WithToolCalls(DObj(JStr(StrUser), JStr(<<"a">>), JAbsent)),
                                JAbsent)),
             DataLine(OneChoice(WithToolCalls(DObj(JAbsent, JAbsent, JStr(<<"r">>))),
                                JStr(StrToolCalls))),
             DataLine(OneChoice(DObj(JAbsent, JStr(<<"b">>), JAbsent), JStr(StrStop))) }
      [] p = "split" ->
           { DataLine(OneChoice(DObj(JAbsent, JStr(<<"b">>), JAbsent), JAbsent)),
             SplitHead,
             SplitTail }
      [] p = "lines" ->
           { DataLine(OneChoice(DObj(JAbsent, JStr(<<"a">>), JAbsent), JAbsent)),
             DataLine(OneChoice(DObj(JStr(StrUser), JStr(<<"b">>), JStr(<<"r">>)),
                                JStr(StrLength))),
             DoneLine,
             JunkLine }

Profiles == {"content", "finish", "meta", "usage", "choices", "lines", "scenario", "split", "types", "role",
             "prefix", "tools"}

\* the byte buffers a stream of family p may yield: empty, one line, or two
\* lines with a newline between them
Chunks(p) ==
    {<<>>} \cup LineTexts(p)
           \cup {l1 \o <<TNl>> \o l2 : l1 \in PairTexts(p), l2 \in PairTexts(p)}

\* The "scenario" family: an upstream that sends five given lines in order, cut
\* into chunks at any line boundaries.
ScenarioLines ==
    << DataLine(JObject(JStr(<<"a", "b", "c">>), JStr(<<"m", "1">>), JAbsent, UAbsent,
                        CArr(<<ChObj(DObj(JStr(StrAssistant), JAbsent, JAbsent), JAbsent)>>))),
       DataLine(OneChoice(DObj(JAbsent, JStr(<<"H", "e", "l">>), JAbsent), JAbsent)),
       DataLine(OneChoice(DObj(JAbsent, JStr(<<"l", "o">>), JAbsent), JAbsent)),
       DataLine(JObject(JAbsent, JAbsent, JAbsent, UObj(JNum(5), JNum(2), JNum(7)),
                        CArr(<<ChObj(DAbsent, JStr(StrStop))>>))),
       DoneLine >>

\* the lines ls with a newline between each two
RECURSIVE JoinLines(_)
JoinLines(ls) ==
    IF ls = <<>> THEN <<>>
    ELSE IF Len(ls) = 1 THEN ls[1]
         ELSE ls[1] \o <<TNl>> \o JoinLines(Tail(ls))

\* the lines of the chunks among items, in arrival order
RECURSIVE AllLines(_)
AllLines(items) ==
    IF items = <<>> THEN <<>>
    ELSE (IF Head(items).kind = "Ok" THEN str_lines(from_utf8_lossy(Head(items).bytes))
          ELSE <<>>) \o AllLines(Tail(items))

\* the byte buffers the stream may yield next, after it has yielded items
Upstream(p, items) ==
    IF p = "scenario"
    THEN {<<>>} \cup
         { JoinLines(SubSeq(ScenarioLines, Len(AllLines(items)) + 1, m)) :
             m \in (Len(AllLines(items)) + 1)..Len(ScenarioLines) }
    ELSE Chunks(p)

\* the number of items the stream yields at most; the scenario has a chunk per line at most
ItemLimit(p) == IF p = "scenario" THEN Len(ScenarioLines) ELSE MaxItems

\* the transport errors, as their Display text
TransportErrors == {"connection reset"}

\* Result<Bytes, E>
OkBytes(b) == [kind |-> "Ok", bytes |-> b, e |-> ""]
ErrItem(e) == [kind |-> "Err", bytes |-> <<>>, e |-> e]

\* chrono::Utc::now().timestamp() when the call starts
Clock == {1700000000, 1700000001}

(***************************************************************************)
(* collect_stream_to_json                                                  *)
(***************************************************************************)
Pending == [kind |-> "pending", err |-> <<>>, response |-> <<>>]

\* lines 18-31
InitLocals(now) ==
    /\ response = [id |-> StrChatcmplUnknown,
                   object |-> StrChatCompletion,
                   created |-> now,
                   model |-> StrUnknown,
                   choices |-> <<>>,
                   usage |-> NoUsage]
    /\ role = None
    /\ content_parts = <<>>
    /\ reasoning_parts = <<>>
    /\ finish_reason = None
    /\ tool_calls = <<>>

Init ==
    /\ profile \in Profiles
    /\ pulled = <<>>
    /\ lines = <<>>
    /\ pc = "next"
    /\ \E now \in Clock : InitLocals(now)
    /\ result = Pending

\* a variant of PollChunk that keeps the unterminated last line of a chunk and
\* puts it in front of the next chunk
PollChunk_carry ==
    /\ pc = "next"
    /\ Len(pulled) < ItemLimit(profile)
    /\ \E chunk \in Upstream(profile, pulled) :
         LET last == IF pulled = <<>> THEN <<>> ELSE pulled[Len(pulled)].bytes
             carry == IF last = <<>> \/ last[Len(last)] = TNl THEN <<>>
                      ELSE str_lines(from_utf8_lossy(last))[Len(str_lines(from_utf8_lossy(last)))]
             text == from_utf8_lossy(carry \o chunk)
         IN  /\ pulled' = Append(pulled, OkBytes(chunk))
             /\ lines' = str_lines(text)
             /\ pc' = IF str_lines(text) = <<>> THEN "next" ELSE "lines"
    /\ UNCHANGED <<profile, response, role, content_parts, reasoning_parts,
                   finish_reason, tool_calls, result>>

\* a variant of PollChunk that takes an empty chunk for the end of the stream
PollChunk_empty_is_end ==
    /\ pc = "next"
    /\ Len(pulled) < ItemLimit(profile)
    /\ \E chunk \in Upstream(profile, pulled) :
         LET text == from_utf8_lossy(chunk)
         IN  /\ pulled' = Append(pulled, OkBytes(chunk))
             /\ lines' = str_lines(text)
             /\ IF chunk = <<>>
                THEN /\ response' = [response EXCEPT
                                       !.choices = Append(@, Choice(role, content_parts,
                                                              reasoning_parts, finish_reason))]
                     /\ result' = [kind |-> "Ok", err |-> <<>>, response |-> <<response'>>]
                     /\ pc' = "done"
                ELSE /\ pc' = IF str_lines(text) = <<>> THEN "next" ELSE "lines"
                     /\ UNCHANGED <<response, result>>
    /\ UNCHANGED <<profile, role, content_parts, reasoning_parts, finish_reason, tool_calls>>

\* lines 33-37: stream.next() yields Some(Ok(chunk)); the chunk is decoded and split
PollChunk ==
    /\ pc = "next"
    /\ Len(pulled) < ItemLimit(profile)
    /\ \E chunk \in Upstream(profile, pulled) :
         LET text == from_utf8_lossy(chunk)
         IN  /\ pulled' = Append(pulled, OkBytes(chunk))
             /\ lines' = str_lines(text)
             /\ pc' = IF str_lines(text) = <<>> THEN "next" ELSE "lines"
    /\ UNCHANGED <<profile, response, role, content_parts, reasoning_parts,
                   finish_reason, tool_calls, result>>

\* a variant of PollError that logs the error and keeps polling
PollError_swallow ==
    /\ pc = "next"
    /\ Len(pulled) < ItemLimit(profile)
    /\ \E e \in TransportErrors : pulled' = Append(pulled, ErrItem(e))
    /\ UNCHANGED <<profile, lines, pc, response, role, content_parts, reasoning_parts,
                   finish_reason, tool_calls, result>>

\* lines 33-34: stream.next() yields Some(Err(e)); the ? returns
PollError ==
    /\ pc = "next"
    /\ Len(pulled) < ItemLimit(profile)
    /\ \E e \in TransportErrors :
         /\ pulled' = Append(pulled, ErrItem(e))
         /\ result' = [kind |-> "Err", err |-> stream_error(e), response |-> <<>>]
    /\ pc' = "done"
    /\ UNCHANGED <<profile, lines, response, role, content_parts, reasoning_parts,
                   finish_reason, tool_calls>>

\* a variant of ProcessLine that returns the parse error of a malformed payload
ProcessLine_parse_error_returns ==
    /\ pc = "lines"
    /\ lines # <<>>
    /\ \E p \in {line_json(Head(lines))} :
           IF p.ok
           THEN /\ response' = [response EXCEPT
                                  !.id = update_id(@, p.json),
                                  !.model = update_model(@, p.json),
                                  !.created = update_created(@, p.json),
                                  !.usage = update_usage(@, p.json)]
                /\ role' = update_role(role, p.json)
                /\ content_parts' = update_content_parts(content_parts, p.json)
                /\ reasoning_parts' = update_reasoning_parts(reasoning_parts, p.json)
                /\ finish_reason' = update_finish_reason(finish_reason, p.json)
                /\ lines' = after_line(lines)
                /\ pc' = IF after_line(lines) = <<>> THEN "next" ELSE "lines"
                /\ result' = result
           ELSE /\ UNCHANGED <<response, role, content_parts, reasoning_parts, finish_reason>>
                /\ IF starts_with_data(trim(Head(lines))) /\ ~is_done(Head(lines))
                   THEN /\ lines' = <<>>
                        /\ pc' = "done"
                        /\ result' = [kind |-> "Err", err |-> <<"JSON error">>,
                                      response |-> <<>>]
                   ELSE /\ lines' = after_line(lines)
                        /\ pc' = IF after_line(lines) = <<>> THEN "next" ELSE "lines"
                        /\ result' = result
    /\ UNCHANGED <<profile, pulled, tool_calls>>

\* lines 37-94: one iteration of the for loop
ProcessLine ==
    /\ pc = "lines"
    /\ lines # <<>>
    /\ \E p \in {line_json(Head(lines))} :
           IF p.ok
           THEN /\ response' = [response EXCEPT
                                  !.id = update_id(@, p.json),
                                  !.model = update_model(@, p.json),
                                  !.created = update_created(@, p.json),
                                  !.usage = update_usage(@, p.json)]
                /\ role' = update_role(role, p.json)
                /\ content_parts' = update_content_parts(content_parts, p.json)
                /\ reasoning_parts' = update_reasoning_parts(reasoning_parts, p.json)
                /\ finish_reason' = update_finish_reason(finish_reason, p.json)
           ELSE UNCHANGED <<response, role, content_parts, reasoning_parts, finish_reason>>
    /\ lines' = after_line(lines)
    /\ pc' = IF after_line(lines) = <<>> THEN "next" ELSE "lines"
    /\ UNCHANGED <<profile, pulled, tool_calls, result>>

\* lines 33, 97-120: stream.next() yields None; the record is assembled and returned
PollEnd ==
    /\ pc = "next"
    /\ response' = [response EXCEPT
                      !.choices = Append(@, Choice(role, content_parts, reasoning_parts,
                                                   finish_reason))]
    /\ result' = [kind |-> "Ok", err |-> <<>>, response |-> <<response'>>]
    /\ pc' = "done"
    /\ UNCHANGED <<profile, pulled, lines, role, content_parts, reasoning_parts,
                   finish_reason, tool_calls>>

Next == PollChunk \/ PollError \/ ProcessLine \/ PollEnd

Spec == Init /\ [][Next]_vars

\* The task is polled until it returns: no enabled step is put off forever.
\* One family of lines is enough to exercise every step of the loop.
LiveInit == Init /\ profile = "lines"
LiveSpec == LiveInit /\ [][Next]_vars /\ WF_vars(Next)

(***************************************************************************)
(* What a run has read, for stating the properties                         *)
(***************************************************************************)
\* the documents of the data events among ls that parsed, in order
RECURSIVE DocsOfLines(_)
DocsOfLines(ls) ==
    IF ls = <<>> THEN <<>>
    ELSE (IF line_json(Head(ls)).ok THEN <<line_json(Head(ls)).json>> ELSE <<>>)
         \o DocsOfLines(Tail(ls))

\* every document the stream has delivered so far
Docs == DocsOfLines(AllLines(pulled))

\* the first entry of the document's choices is an object
HasFirstChoice(doc) ==
    /\ doc.ty = "object"
    /\ doc.choices.ty = "array"
    /\ Len(doc.choices.arr) >= 1
    /\ doc.choices.arr[1].ty = "object"

\* the string under delta.f of the first choice, as a list of zero or one strings
DeltaString(doc, f) ==
    IF /\ HasFirstChoice(doc)
       /\ doc.choices.arr[1].delta.ty = "object"
       /\ doc.choices.arr[1].delta[f].ty = "string"
    THEN <<doc.choices.arr[1].delta[f].s>>
    ELSE <<>>

\* the string under finish_reason of the first choice, likewise
FinishString(doc) ==
    IF HasFirstChoice(doc) /\ doc.choices.arr[1].finish_reason.ty = "string"
    THEN <<doc.choices.arr[1].finish_reason.s>>
    ELSE <<>>

\* the string under the top-level key f, likewise
TopString(doc, f) ==
    IF doc.ty = "object" /\ doc[f].ty = "string" THEN <<doc[f].s>> ELSE <<>>

\* the usage record of the document if it has the usage shape, likewise
UsageRecord(doc) ==
    IF doc.ty = "object" /\ from_value_usage(doc.usage).some
    THEN <<from_value_usage(doc.usage).v>>
    ELSE <<>>

RECURSIVE DeltaStrings(_, _)
DeltaStrings(docs, f) ==
    IF docs = <<>> THEN <<>> ELSE DeltaString(Head(docs), f) \o DeltaStrings(Tail(docs), f)

RECURSIVE FinishStrings(_)
FinishStrings(docs) ==
    IF docs = <<>> THEN <<>> ELSE FinishString(Head(docs)) \o FinishStrings(Tail(docs))

RECURSIVE TopStrings(_, _)
TopStrings(docs, f) ==
    IF docs = <<>> THEN <<>> ELSE TopString(Head(docs), f) \o TopStrings(Tail(docs), f)

RECURSIVE UsageRecords(_)
UsageRecords(docs) ==
    IF docs = <<>> THEN <<>> ELSE UsageRecord(Head(docs)) \o UsageRecords(Tail(docs))

\* the concatenation of a list of strings, left to right
RECURSIVE Concat(_)
Concat(ss) == IF ss = <<>> THEN <<>> ELSE Concat(SubSeq(ss, 1, Len(ss) - 1)) \o ss[Len(ss)]

\* the last non-empty string of ss, or dflt
RECURSIVE LastNonEmpty(_, _)
LastNonEmpty(ss, dflt) ==
    IF ss = <<>> THEN dflt
    ELSE IF ss[Len(ss)] # <<>> THEN ss[Len(ss)]
         ELSE LastNonEmpty(SubSeq(ss, 1, Len(ss) - 1), dflt)

\* the returned record, its only choice and its message
Returned == result.kind = "Ok"
Out == result.response[1]
OutChoice == Out.choices[1]
OutMessage == OutChoice.message

\* the items pulled before the last one
Before == SubSeq(pulled, 1, Len(pulled) - 1)

(***************************************************************************)
(* Properties                                                              *)
(***************************************************************************)
\* C1: the content of the returned message is the concatenation, in arrival
\* order, of the delta.content strings of the first choice of every parsed
\* data event: nothing lost, duplicated or reordered.
C1_ContentIsConcatenation ==
    Returned => OutMessage.content = Some(Concat(DeltaStrings(Docs, "content")))

\* three fragments, two from one chunk and one from the next
C1_Witness ==
    /\ Returned
    /\ Len(pulled) = 2
    /\ Len(content_parts) = 3
    /\ OutMessage.content = Some(<<"a", "b", "a">>)

\* C2: a transport error at any position ends the call at once with
\* Err("Stream error: <e>"): no record, and nothing is pulled after it.
C2_TransportErrorAborts ==
    /\ (\E i \in 1..Len(pulled) : pulled[i].kind = "Err") =>
          /\ pulled[Len(pulled)].kind = "Err"
          /\ \A i \in 1..(Len(pulled) - 1) : pulled[i].kind = "Ok"
          /\ pc = "done"
          /\ result = [kind |-> "Err",
                       err |-> <<"Stream error: ", pulled[Len(pulled)].e>>,
                       response |-> <<>>]
    /\ result.kind = "Err" => pulled # <<>> /\ pulled[Len(pulled)].kind = "Err"

\* the error comes after events were merged
C2_Witness ==
    /\ result.kind = "Err"
    /\ Len(pulled) = 2
    /\ content_parts # <<>>

\* C3: the finish_reason of the returned choice is the last non-empty
\* finish_reason string of the first choices of the parsed events, or "stop"
\* if there is none; an empty string neither replaces an earlier value nor
\* suppresses the default.
C3_FinishReasonLastNonEmpty ==
    Returned => OutChoice.finish_reason = Some(LastNonEmpty(FinishStrings(Docs), StrStop))

\* the lines after the first sentinel line of ls; none if ls has no sentinel
RECURSIVE AfterFirstDone(_)
AfterFirstDone(ls) ==
    IF ls = <<>> THEN <<>>
    ELSE IF is_done(Head(ls)) THEN Tail(ls) ELSE AfterFirstDone(Tail(ls))

\* the last n elements of s
Suffix(s, n) == SubSeq(s, Len(s) - n + 1, Len(s))

\* the aggregate
agg == <<response, role, content_parts, reasoning_parts, finish_reason, tool_calls>>

\* C4: a "data: [DONE]" line changes no field of the aggregate and ends
\* nothing: the loop goes on to the next line, no result is produced by it,
\* and the content fragments of the events after it, in the same chunk or in
\* later ones, are the last fragments of the returned content.
C4_DoneEndsNothing ==
    /\ [][(pc = "lines" /\ is_done(Head(lines))) =>
            /\ agg' = agg
            /\ result' = result
            /\ lines' = Tail(lines)
            /\ pc' # "done"]_vars
    /\ [](Returned =>
            LET after == DeltaStrings(DocsOfLines(AfterFirstDone(AllLines(pulled))), "content")
            IN  /\ Len(after) <= Len(content_parts)
                /\ Suffix(content_parts, Len(after)) = after)

\* a sentinel, then an event in the same chunk and one in the next chunk
C4_Witness ==
    /\ Returned
    /\ Len(pulled) = 2
    /\ Len(AllLines(pulled)) = 3
    /\ is_done(AllLines(pulled)[1])
    /\ Len(content_parts) = 2

\* the line is a data line whose payload is neither the sentinel nor a JSON document
is_malformed(raw) ==
    LET payload == trim(trim_start_matches_data(trim(raw)))
    IN  /\ starts_with_data(trim(raw))
        /\ payload # <<TDone>>
        /\ ~(Len(payload) = 1 /\ payload[1].k = "json")
        /\ ~(/\ Len(payload) = 2
             /\ payload[1].k = "jhead"
             /\ payload[2].k = "jtail"
             /\ payload[1].e = payload[2].e)

\* the last string of ss, or dflt
LastOr(ss, dflt) == IF ss = <<>> THEN dflt ELSE ss[Len(ss)]

\* the lines of ls that are not malformed data lines
RECURSIVE WithoutMalformed(_)
WithoutMalformed(ls) ==
    IF ls = <<>> THEN <<>>
    ELSE (IF is_malformed(Head(ls)) THEN <<>> ELSE <<Head(ls)>>) \o WithoutMalformed(Tail(ls))

\* C5: a data line whose payload is not valid JSON changes no field of the
\* aggregate, produces no result (so no error), and the loop goes on with the
\* next line; an error result comes from a transport error only; and the
\* fragments, role, finish_reason, id, model and usage that are returned are
\* those of the stream with every such line taken out.
C5_MalformedLineIsNoOp ==
    /\ [][(pc = "lines" /\ is_malformed(Head(lines))) =>
            /\ agg' = agg
            /\ result' = result
            /\ lines' = Tail(lines)
            /\ pc' # "done"]_vars
    /\ [](result.kind = "Err" => pulled # <<>> /\ pulled[Len(pulled)].kind = "Err")
    /\ [](Returned =>
            LET docs == DocsOfLines(WithoutMalformed(AllLines(pulled)))
                us == UsageRecords(docs)
            IN  /\ content_parts = DeltaStrings(docs, "content")
                /\ reasoning_parts = DeltaStrings(docs, "reasoning_content")
                /\ OutMessage.role = LastOr(DeltaStrings(docs, "role"), StrAssistant)
                /\ OutChoice.finish_reason = Some(LastOr(FinishStrings(docs), StrStop))
                /\ Out.id = LastOr(TopStrings(docs, "id"), StrChatcmplUnknown)
                /\ Out.model = LastOr(TopStrings(docs, "model"), StrUnknown)
                /\ Out.usage = IF us = <<>> THEN NoUsage
                                ELSE [some |-> TRUE, v |-> us[Len(us)]])

\* a malformed line between two merged events
C5_Witness ==
    /\ Returned
    /\ Len(AllLines(pulled)) = 3
    /\ is_malformed(AllLines(pulled)[2])
    /\ Len(content_parts) = 2

\* C6: the returned reasoning_content is None exactly when no parsed event
\* has a string delta.reasoning_content in its first choice, and otherwise the
\* concatenation of those strings in arrival order.
C6_ReasoningAbsentOrConcatenation ==
    Returned =>
        LET rs == DeltaStrings(Docs, "reasoning_content")
        IN  OutMessage.reasoning_content = IF rs = <<>> THEN None ELSE Some(Concat(rs))

\* two reasoning fragments from two chunks
C6_Witness ==
    /\ Returned
    /\ Len(pulled) = 2
    /\ OutMessage.reasoning_content = Some(<<"r", "s">>)

\* C7: the call ends, with one result that never changes: an error exactly
\* when an item is a transport error, otherwise a record, produced by the
\* poll that finds the stream ended, after every line of every chunk was
\* visited; before that there is no result.
C7_OneResultAtTheEnd ==
    /\ <>(pc = "done")
    /\ [](pc = "done" <=> result.kind # "pending")
    /\ [](result.kind = "Err" <=> \E i \in 1..Len(pulled) : pulled[i].kind = "Err")
    /\ [](Returned => Len(Out.choices) = 1 /\ lines = <<>>)
    /\ [][result.kind = "pending"]_vars
    /\ [][result'.kind = "Ok" => pc = "next" /\ pulled' = pulled]_vars

\* a record returned after the stream delivered as many chunks as it may
C7_Witness ==
    /\ pc = "done"
    /\ Returned
    /\ Len(pulled) = MaxItems
    /\ Len(AllLines(pulled)) = 2 * MaxItems

\* no character of s is the one only second choices carry
NoPoison(s) == \A i \in 1..Len(s) : s[i] # "x"

\* C8: the returned record has exactly one choice, with index 0, and nothing
\* of an entry of choices after the first reaches it: not its role, content,
\* reasoning_content or finish_reason.
C8_OneChoiceFromFirstEntries ==
    Returned =>
        /\ Len(Out.choices) = 1
        /\ OutChoice.index = 0
        /\ NoPoison(OutMessage.role)
        /\ NoPoison(OutMessage.content.v)
        /\ NoPoison(OutMessage.reasoning_content.v)
        /\ NoPoison(OutChoice.finish_reason.v)

\* two events with two choices each were merged
C8_Witness ==
    /\ Returned
    /\ Len(Docs) >= 2
    /\ \A i \in 1..Len(Docs) : Docs[i].choices.ty = "array" /\ Len(Docs[i].choices.arr) = 2
    /\ OutMessage.role = StrUser
    /\ OutMessage.content = Some(<<"a", "b">>)
    /\ OutChoice.finish_reason = Some(StrLength)

\* C9: the returned id (model) is the last non-empty id (model) string of the
\* parsed events, or "chatcmpl-unknown" ("unknown") if there is none; an empty
\* string does not overwrite a stored value.
C9_IdAndModelLastNonEmpty ==
    Returned =>
        /\ Out.id = LastNonEmpty(TopStrings(Docs, "id"), StrChatcmplUnknown)
        /\ Out.model = LastNonEmpty(TopStrings(Docs, "model"), StrUnknown)

\* C10: the returned usage is the usage of the last parsed event whose usage
\* has the usage shape, whole; a usage of another shape changes nothing, and
\* usage is None if no event had one of the shape.
C10_UsageIsLastParsable ==
    Returned =>
        LET us == UsageRecords(Docs)
        IN  Out.usage = IF us = <<>> THEN NoUsage
                        ELSE [some |-> TRUE, v |-> us[Len(us)]]

\* a usage, then an event whose usage is there but of another shape
C10_Witness ==
    /\ Returned
    /\ Len(Docs) = 2
    /\ UsageRecord(Docs[1]) # <<>>
    /\ Docs[2].usage.ty # "absent"
    /\ UsageRecord(Docs[2]) = <<>>
    /\ Out.usage = [some |-> TRUE, v |-> OpenAIUsage(5, 2, 7)]

\* the strings the document of a line adds to channel f: none if the line is not merged
LineFragment(raw, f) ==
    IF line_json(raw).ok THEN DeltaString(line_json(raw).json, f) ELSE <<>>

\* doc with the key f taken out of the delta of every choice
WithoutDeltaKey(doc, f) ==
    [doc EXCEPT !.choices =
        [ty |-> doc.choices.ty,
         arr |-> [i \in DOMAIN doc.choices.arr |->
                     [doc.choices.arr[i] EXCEPT !.delta =
                         [doc.choices.arr[i].delta EXCEPT ![f] = JAbsent]]]]]

RECURSIVE WithoutDeltaKeys(_, _)
WithoutDeltaKeys(docs, f) ==
    IF docs = <<>> THEN <<>>
    ELSE <<WithoutDeltaKey(Head(docs), f)>> \o WithoutDeltaKeys(Tail(docs), f)

\* C11: content and reasoning are separate channels: a step appends the
\* delta.content string of the line to content_parts only and its
\* delta.reasoning_content string to reasoning_parts only (one to each if the
\* event has both), and the returned content (reasoning) is that of the stream
\* with every reasoning (content) fragment taken out.
C11_ChannelsIndependent ==
    /\ [][IF pc = "lines"
          THEN /\ content_parts' = content_parts \o LineFragment(Head(lines), "content")
               /\ reasoning_parts' =
                      reasoning_parts \o LineFragment(Head(lines), "reasoning_content")
          ELSE UNCHANGED <<content_parts, reasoning_parts>>]_vars
    /\ [](Returned =>
            LET cs == DeltaStrings(WithoutDeltaKeys(Docs, "reasoning_content"), "content")
                rs == DeltaStrings(WithoutDeltaKeys(Docs, "content"), "reasoning_content")
            IN  /\ OutMessage.content = Some(Concat(cs))
                /\ OutMessage.reasoning_content = IF rs = <<>> THEN None ELSE Some(Concat(rs)))

\* content and reasoning interleaved, one event carrying both
C11_Witness ==
    /\ Returned
    /\ Len(Docs) = 3
    /\ content_parts = << <<"a">>, <<"b">> >>
    /\ reasoning_parts = << <<"r">>, <<"s">> >>

\* the record of the scenario, created at t
ScenarioRecord(t) ==
    [id |-> <<"a", "b", "c">>,
     object |-> StrChatCompletion,
     created |-> t,
     model |-> <<"m", "1">>,
     choices |-> << [index |-> 0,
                     message |-> [role |-> StrAssistant,
                                  content |-> Some(<<"H", "e", "l", "l", "o">>),
                                  reasoning_content |-> None,
                                  tool_calls |-> None,
                                  tool_call_id |-> None,
                                  name |-> None],
                     finish_reason |-> Some(StrStop)] >>,
     usage |-> [some |-> TRUE, v |-> OpenAIUsage(5, 2, 7)]]

\* C12: the five lines of the scenario, delivered in order without error and
\* cut into chunks at any line boundaries, give id "abc", model "m1", one
\* choice at index 0 with role "assistant", content "Hello" and finish_reason
\* "stop", and usage 5/2/7.
C12_Scenario ==
    (Returned /\ AllLines(pulled) = ScenarioLines) =>
        \E t \in Clock : Out = ScenarioRecord(t)

\* the scenario with one line to a chunk
C12_Witness ==
    /\ Returned
    /\ AllLines(pulled) = ScenarioLines
    /\ Len(pulled) = Len(ScenarioLines)

\* the record returned when nothing was merged, created at t
DefaultRecord(t) ==
    [id |-> StrChatcmplUnknown,
     object |-> StrChatCompletion,
     created |-> t,
     model |-> StrUnknown,
     choices |-> << [index |-> 0,
                     message |-> [role |-> StrAssistant,
                                  content |-> Some(<<>>),
                                  reasoning_content |-> None,
                                  tool_calls |-> None,
                                  tool_call_id |-> None,
                                  name |-> None],
                     finish_reason |-> Some(StrStop)] >>,
     usage |-> NoUsage]

\* raw holds a piece of a JSON text without the other piece next to it
IsHalf(raw) ==
    \E i \in DOMAIN raw :
        \/ raw[i].k = "jhead" /\ (i = Len(raw) \/ raw[i + 1] # TJTail(raw[i].e))
        \/ raw[i].k = "jtail" /\ (i = 1 \/ raw[i - 1] # TJHead(raw[i].e))

\* the lines of ls that hold no such piece
RECURSIVE WithoutHalves(_)
WithoutHalves(ls) ==
    IF ls = <<>> THEN <<>>
    ELSE (IF IsHalf(Head(ls)) THEN <<>> ELSE <<Head(ls)>>) \o WithoutHalves(Tail(ls))

\* C13: each chunk is split into lines on its own. A line that holds one piece
\* of an event's JSON text changes nothing when it is processed; the result is
\* the one of the stream without such lines; the two pieces of an event in two
\* consecutive chunks give the record of an empty stream, and the same two
\* pieces in one chunk, or the event's whole line, give the event's values.
C13_SplitLineNotReassembled ==
    /\ [][(pc = "lines" /\ IsHalf(Head(lines))) => agg' = agg]_vars
    /\ [](Returned =>
            LET docs == DocsOfLines(WithoutHalves(AllLines(pulled)))
            IN  /\ OutMessage.content = Some(Concat(DeltaStrings(docs, "content")))
                /\ OutMessage.role = LastOr(DeltaStrings(docs, "role"), StrAssistant)
                /\ OutChoice.finish_reason = Some(LastOr(FinishStrings(docs), StrStop)))
    /\ []((Returned /\ pulled = <<OkBytes(SplitHead), OkBytes(SplitTail)>>) =>
            \E t \in Clock : Out = DefaultRecord(t))
    /\ []((Returned /\ pulled \in { <<OkBytes(SplitHead \o SplitTail)>>,
                                    <<OkBytes(DataLine(SplitEvent))>> }) =>
            /\ OutMessage.content = Some(<<"a">>)
            /\ OutMessage.reasoning_content = Some(<<"r">>)
            /\ OutMessage.role = StrUser
            /\ OutChoice.finish_reason = Some(StrLength))

\* the two pieces have come in two consecutive chunks
C13_Witness ==
    /\ Returned
    /\ pulled = <<OkBytes(SplitHead), OkBytes(SplitTail)>>

\* s is a prefix of t
IsPrefix(s, t) == Len(s) <= Len(t) /\ SubSeq(t, 1, Len(s)) = s

\* the parsed document of the line raw, as a list of zero or one documents
LineDocs(raw) == DocsOfLines(<<raw>>)

\* the document of the line has a number under created
HasNumericCreated(docs) ==
    docs # <<>> /\ docs[1].ty = "object" /\ docs[1].created.ty \in {"number", "fraction"}

\* C14: merging is never subtractive. Processing a line in which a field is
\* absent or of a wrong type leaves the matching field of the aggregate as it
\* was; the content and reasoning lists only grow at the end; a field that was
\* set is never back at its default; and no other step changes these fields.
C14_NeverSubtractive ==
    [][/\ IsPrefix(content_parts, content_parts')
       /\ IsPrefix(reasoning_parts, reasoning_parts')
       /\ role.some => role'.some
       /\ finish_reason.some => finish_reason'.some
       /\ response.usage.some => response'.usage.some
       /\ response.id # StrChatcmplUnknown => response'.id # StrChatcmplUnknown
       /\ response.model # StrUnknown => response'.model # StrUnknown
       /\ response.created \notin Clock => response'.created \notin Clock
       /\ IF pc = "lines"
          THEN LET docs == LineDocs(Head(lines))
               IN  /\ TopStrings(docs, "id") = <<>> => response'.id = response.id
                   /\ TopStrings(docs, "model") = <<>> => response'.model = response.model
                   /\ ~HasNumericCreated(docs) => response'.created = response.created
                   /\ UsageRecords(docs) = <<>> => response'.usage = response.usage
                   /\ DeltaStrings(docs, "role") = <<>> => role' = role
                   /\ DeltaStrings(docs, "content") = <<>> => content_parts' = content_parts
                   /\ DeltaStrings(docs, "reasoning_content") = <<>> =>
                          reasoning_parts' = reasoning_parts
                   /\ FinishStrings(docs) = <<>> => finish_reason' = finish_reason
          ELSE /\ UNCHANGED <<role, content_parts, reasoning_parts, finish_reason>>
               /\ [response' EXCEPT !.choices = <<>>] = [response EXCEPT !.choices = <<>>]
      ]_vars

\* an event set every field and an event with wrong types everywhere followed it
C14_Witness ==
    /\ Returned
    /\ AllLines(pulled) = <<DataLine(FullEvent), DataLine(WrongTypes)>>
    /\ Out.id = <<"a", "b", "c">>
    /\ Out.usage.some
    /\ OutMessage.role = StrUser
    /\ OutMessage.content = Some(<<"a">>)
    /\ OutChoice.finish_reason = Some(StrLength)

\* three lines: a finish_reason next to a delta, one in a choice without delta,
\* and one inside the delta only
FinishWithDelta == DataLine(OneChoice(DObj(JAbsent, JStr(<<"a">>), JAbsent), JStr(StrLength)))
FinishNoDelta == DataLine(OneChoice(DAbsent, JStr(StrStop)))
FinishInDelta ==
    DataLine(OneChoice([DObj(JAbsent, JAbsent, JAbsent) EXCEPT !.finish_reason = JStr(StrLength)],
                       JAbsent))

\* C15: the finish_reason is read from the first choice, next to delta and
\* whether or not there is a delta: a line whose first choice has a non-empty
\* finish_reason string sets it, with or without a delta object; a line whose
\* first choice has none leaves it, also if its delta holds a finish_reason.
C15_FinishReasonBesideDelta ==
    /\ [][pc = "lines" =>
            LET fs == FinishStrings(LineDocs(Head(lines)))
            IN  /\ (fs # <<>> /\ fs[1] # <<>>) => finish_reason' = Some(fs[1])
                /\ fs = <<>> => finish_reason' = finish_reason]_vars
    /\ []((Returned /\ AllLines(pulled) = <<FinishWithDelta, FinishNoDelta>>) =>
            OutChoice.finish_reason = Some(StrStop))
    /\ []((Returned /\ AllLines(pulled) = <<FinishNoDelta, FinishWithDelta>>) =>
            OutChoice.finish_reason = Some(StrLength))
    /\ []((Returned /\ AllLines(pulled) \in { <<FinishInDelta>>, <<FinishNoDelta, FinishInDelta>> }) =>
            OutChoice.finish_reason = Some(StrStop))

\* "length" came with a delta, then "stop" came without one and replaced it
C15_Witness ==
    /\ Returned
    /\ AllLines(pulled) = <<FinishWithDelta, FinishNoDelta>>
    /\ OutChoice.finish_reason = Some(StrStop)

\* C16: the role of the returned message is the last non-empty delta.role
\* string of the first choices of the parsed events, or "assistant" if there
\* is none; an empty string neither replaces a stored role nor suppresses the
\* default.
C16_RoleLastNonEmpty ==
    Returned => OutMessage.role = LastNonEmpty(DeltaStrings(Docs, "role"), StrAssistant)

\* the line, once the white space around it is gone, begins with "data: ":
\* after leading white space come "data:" and a space, and the line does not
\* end there
HasPrefix(raw) ==
    \E i \in 1..(Len(raw) - 2) :
        /\ \A j \in 1..(i - 1) : raw[j] = TSp
        /\ raw[i] = TData
        /\ raw[i + 1] = TSp
        /\ \E j \in (i + 2)..Len(raw) : raw[j] # TSp

\* C17: a line that does not begin with "data: " once trimmed (a blank line,
\* an "event:" line, a ":" comment, "data:{json}" without the space) changes
\* no field of the aggregate, also when the rest of it is a valid event; a
\* stream of such lines returns the record of an empty stream, and a data
\* line with white space around it is merged.
C17_OnlyPrefixedLines ==
    /\ [][(pc = "lines" /\ ~HasPrefix(Head(lines))) =>
              (agg' = agg /\ result' = result)]_vars
    /\ []((Returned /\ \A i \in DOMAIN AllLines(pulled) : ~HasPrefix(AllLines(pulled)[i])) =>
            \E t \in Clock : Out = DefaultRecord(t))
    /\ []((Returned /\ pulled = << OkBytes(<<TSp, TData, TSp, TJson(FullEvent), TSp>>) >>) =>
            /\ Out.id = <<"a", "b", "c">>
            /\ OutMessage.content = Some(<<"a">>))

\* a blank line, "data:{json}", an "event:" line and a ":" comment have been read
C17_Witness ==
    /\ Returned
    /\ AllLines(pulled) = << <<>>,
                             <<TData, TJson(FullEvent)>>,
                             <<TEvent, TSp, TJson(FullEvent)>>,
                             <<TColon, TSp, TJson(FullEvent)>> >>

\* the line carries no event: it has no prefix, or it is the sentinel, or its
\* payload is no JSON document
CarriesNoEvent(raw) == ~HasPrefix(raw) \/ is_done(raw) \/ is_malformed(raw)

\* C18: when the stream ends and no line of it carried an event (no item, empty
\* chunks only, or only ignored, malformed and sentinel lines), the result is
\* still a whole record: id "chatcmpl-unknown", object "chat.completion",
\* created the start time, model "unknown", no usage, and one choice at index
\* 0 with role "assistant", content the empty string, no reasoning_content and
\* finish_reason "stop".
C18_DefaultsForEmptyStream ==
    (Returned /\ \A i \in DOMAIN AllLines(pulled) : CarriesNoEvent(AllLines(pulled)[i])) =>
        /\ \E t \in Clock : Out = DefaultRecord(t)
        /\ Out.created = response.created
        /\ OutMessage.content.some
        /\ OutMessage.content.v = <<>>

\* a sentinel line and a malformed line in one chunk, then an empty chunk
C18_Witness ==
    /\ Returned
    /\ pulled = <<OkBytes(DoneLine \o <<TNl>> \o JunkLine), OkBytes(<<>>)>>

\* the values under created of the documents that are JSON numbers, in order
RECURSIVE CreatedNumbers(_)
CreatedNumbers(docs) ==
    IF docs = <<>> THEN <<>>
    ELSE (IF Head(docs).ty = "object" /\ Head(docs).created.ty \in {"number", "fraction"}
          THEN <<Head(docs).created>> ELSE <<>>) \o CreatedNumbers(Tail(docs))

\* those of them that are integers and not negative
RECURSIVE CreatedUnsigned(_)
CreatedUnsigned(docs) ==
    IF docs = <<>> THEN <<>>
    ELSE (IF /\ Head(docs).ty = "object"
             /\ Head(docs).created.ty = "number"
             /\ Head(docs).created.n >= 0
          THEN <<Head(docs).created.n>> ELSE <<>>) \o CreatedUnsigned(Tail(docs))

\* C19 as stated: the returned created is the created of the last parsed event
\* that carried a number, negative and fractional numbers included, and the
\* start time only if no event carried a number.
C19_CreatedLastNumber ==
    Returned =>
        LET cs == CreatedNumbers(Docs)
        IN  IF cs = <<>> THEN Out.created \in Clock
            ELSE cs[Len(cs)].ty = "number" /\ Out.created = cs[Len(cs)].n

\* C19, amended: the returned created is the created of the last parsed event
\* that carried a non-negative integer, and the start time if no event carried
\* one; a line whose created is negative, fractional or no number leaves the
\* stored created as it was.
C19_CreatedLastUnsigned ==
    /\ [](Returned =>
            LET cs == CreatedUnsigned(Docs)
            IN  IF cs = <<>> THEN Out.created \in Clock ELSE Out.created = cs[Len(cs)])
    /\ [][pc = "lines" =>
            LET cs == CreatedUnsigned(LineDocs(Head(lines)))
            IN  response'.created = IF cs = <<>> THEN response.created ELSE cs[1]]_vars

\* created 7 came first and a negative created after it
C19_Witness ==
    /\ Returned
    /\ CreatedNumbers(Docs) = <<JNum(7), JNum(0 - 1)>>
    /\ Out.created = 7

\* the lines ls with every tool_calls key taken out of the first-choice deltas
\* of their documents
RECURSIVE WithoutToolCalls(_)
WithoutToolCalls(ls) ==
    IF ls = <<>> THEN <<>>
    ELSE (IF LineDocs(Head(ls)) = <<>> THEN <<Head(ls)>>
          ELSE <<DataLine(WithoutDeltaKeys(LineDocs(Head(ls)), "tool_calls")[1])>>)
         \o WithoutToolCalls(Tail(ls))

\* C20: tool calls are never aggregated. The tool_calls list stays empty; the
\* returned message has no tool_calls, tool_call_id or name; a line changes the
\* other fields as the same line without tool_calls in its delta does, so the
\* result is the one of the stream with the tool_calls keys taken out.
C20_ToolCallsNotAggregated ==
    /\ [](tool_calls = <<>>)
    /\ [](Returned => /\ OutMessage.tool_calls = None
                      /\ OutMessage.tool_call_id = None
                      /\ OutMessage.name = None)
    /\ [][pc = "lines" =>
            LET docs == WithoutDeltaKeys(LineDocs(Head(lines)), "tool_calls")
                rs == DeltaStrings(docs, "role")
                fs == FinishStrings(docs)
            IN  /\ content_parts' = content_parts \o DeltaStrings(docs, "content")
                /\ reasoning_parts' = reasoning_parts \o DeltaStrings(docs, "reasoning_content")
                /\ role' = IF rs = <<>> THEN role ELSE Some(rs[1])
                /\ finish_reason' = IF fs = <<>> THEN finish_reason ELSE Some(fs[1])]_vars
    /\ [](Returned =>
            LET docs == DocsOfLines(WithoutToolCalls(AllLines(pulled)))
            IN  /\ OutMessage.content = Some(Concat(DeltaStrings(docs, "content")))
                /\ OutMessage.role = LastOr(DeltaStrings(docs, "role"), StrAssistant)
                /\ OutChoice.finish_reason = Some(LastOr(FinishStrings(docs), StrStop)))
    /\ []((Returned /\ Len(Docs) = 2
                    /\ DeltaStrings(Docs, "content") = << <<"a">> >>
                    /\ FinishStrings(Docs) = <<StrToolCalls>>) =>
            /\ OutMessage.content = Some(<<"a">>)
            /\ OutMessage.reasoning_content = Some(<<"r">>)
            /\ OutMessage.role = StrUser
            /\ OutChoice.finish_reason = Some(StrToolCalls))

\* two events whose deltas carry tool_calls have been merged
C20_Witness ==
    /\ Returned
    /\ Len(Docs) = 2
    /\ \A i \in 1..2 : /\ HasFirstChoice(Docs[i])
                       /\ Docs[i].choices.arr[1].delta.tool_calls = JArr
    /\ OutMessage.content = Some(<<"a">>)
    /\ OutChoice.finish_reason = Some(StrToolCalls)

====
